---- MODULE Spec2Model ----
(***************************************************************************)
(* Dry-run data tracing of openeo_driver/dry_run.py.                       *)
(*                                                                         *)
(* A DryRunDataTracer owns the list _traces of every trace node created in *)
(* one dry run; a DryRunDataCube holds a list of references into it.       *)
(* Nodes are compared and hashed by identity (id(self)): a node is named   *)
(* here by its position in the tracer's list.  A cube never changes after  *)
(* its construction (no method assigns _traces or metadata, and every      *)
(* method builds a fresh list), so a cube is its value and `cubes` is the  *)
(* set of the cubes the caller still holds: a caller either keeps the cube *)
(* it called a method on or rebinds its name to the cube returned, as      *)
(* load_collection does with `cube = cube.filter_temporal(...)`.           *)
(*                                                                         *)
(* A dry run fills the tracer while the process graph is replayed; when    *)
(* the replay is over the cubes are gone and the tracer is read; one kind   *)
(* of caller reads it in the middle of the replay too.  `ret` is the last  *)
(* call: its name, the cubes it was given and what it returned.            *)
(*                                                                         *)
(* Dates are day numbers (ISO date strings order the same way), a bounding *)
(* box is the record filter_bbox builds, a band list is a sequence.        *)
(***************************************************************************)
EXTENDS Integers, Sequences, FiniteSets, TLC

VARIABLES graph, traces, cubes, ret

vars == <<graph, traces, cubes, ret>>

(* ------------------------------ bounds -------------------------------- *)

\* Most nodes the tracer holds plus entries in the lists of traces of the
\* cubes the caller holds (mask and merge_cubes lengthen a list without
\* registering a node).
MaxSize == 6

(* ------------------------------ inputs -------------------------------- *)

\* The `arguments` dict of a load_collection process: a function from the
\* filter arguments that are given to their values.
NoArguments == [k \in {} |-> 0]

S2 == [collection_id |-> "S2", arguments |-> NoArguments, metadata |-> "S2-metadata"]

S1 == [collection_id |-> "S1", arguments |-> NoArguments, metadata |-> "None"]

Box4326 == [west |-> 0, south |-> 0, east |-> 1, north |-> 1, crs |-> "EPSG:4326"]

Box32631 == [west |-> 1, south |-> 1, east |-> 3, north |-> 2, crs |-> "EPSG:32631"]

\* load_disk_data inputs; `options` is a dict, given as a function.
OptionKeys == <<"date_regex", "nodata">>

DiskData ==
    [glob_pattern |-> "/data/*.tif", format |-> "GTiff",
     options |-> [nodata |-> "0", date_regex |-> "x"]]

\* The calls a process graph under replay is made of.  The constraint
\* fields are collected and merged one field at a time, so a vocabulary has
\* two payloads for one field, or one payload for each.  `operations` are
\* the (operation, arguments) of the nodes given to append_trace directly.
Vocabulary(name, collections, disk, temporal, bbox, bands, geometries, methods,
           operations) ==
    [name |-> name, collections |-> collections, disk |-> disk,
     temporal |-> temporal, bbox |-> bbox, bands |-> bands,
     geometries |-> geometries, methods |-> methods, operations |-> operations]

Vocabularies ==
    { Vocabulary("temporal", {S2}, {}, {<<1, 2>>, <<3, 5>>}, {}, {<<"B2", "B3">>}, {},
                 {}, {}),
      Vocabulary("bands", {S2}, {}, {}, {}, {<<"B2", "B3">>, <<"B3", "B4">>}, {},
                 {"merge_cubes"}, {}),
      Vocabulary("spatial", {S2}, {}, {}, {Box4326}, {},
                 {[type |-> "dict", bounds |-> <<1, 0, 2, 3>>],
                  [type |-> "int", bounds |-> <<0, 0, 0, 0>>]},
                 {"mask"}, {}),
      Vocabulary("crs", {}, {DiskData}, {}, {Box4326, Box32631}, {},
                 {[type |-> "DelayedVector", bounds |-> <<0, 0, 2, 2>>]},
                 {"resample_cube_spatial"}, {}),
      Vocabulary("mixed", {S2}, {}, {<<1, 2>>}, {Box4326}, {<<"B2", "B3">>}, {},
                 {"apply"}, {}),
      Vocabulary("sources", {S2, S1}, {}, {}, {}, {<<"B2", "B3">>}, {},
                 {"merge_cubes"}, {}),
      Vocabulary("arguments",
                 {[S2 EXCEPT !.arguments =
                      [temporal_extent |-> <<2, 4>>, bands |-> <<"B3", "B4">>]],
                  [S2 EXCEPT !.arguments =
                      [temporal_extent |-> <<2, 4>>, spatial_extent |-> Box4326,
                       bands |-> <<"B3", "B4">>]]},
                 {}, {<<1, 2>>}, {}, {}, {}, {}, {}),
      Vocabulary("registry", {S2}, {}, {}, {}, {<<"B2", "B3">>}, {}, {},
                 {<<"resample", "near">>}),
      Vocabulary("interleaved", {S2}, {}, {}, {}, {<<"B2", "B3">>}, {},
                 {"read"}, {}) }

\* resample_cube_spatial and the methods bound to _nop.
NopMethods == {"resample_cube_spatial", "apply"}

(* ------------------------------ helpers ------------------------------- *)

Range(s) == {s[i] : i \in DOMAIN s}

Min(a, b) == IF a <= b THEN a ELSE b

Max(a, b) == IF a >= b THEN a ELSE b

RECURSIVE Perms(_)
Perms(S) ==
    IF S = {} THEN {<<>>}
    ELSE UNION {{<<x>> \o p : p \in Perms(S \ {x})} : x \in S}

(* ---------------------------- trace nodes ----------------------------- *)

DataSource(process, arguments) ==
    [kind |-> "DataSource", process |-> process, arguments |-> arguments]

DataSource_load_collection(collection_id) ==
    DataSource("load_collection", <<collection_id>>)

DataSource_load_disk_data(glob_pattern, format, options) ==
    DataSource("load_disk_data", <<glob_pattern, format, options>>)

DataTrace(parent, operation, arguments) ==
    [kind |-> "DataTrace", parent |-> parent, operation |-> operation,
     arguments |-> arguments]

\* The node a reference leads to.  A reference to a registered node is its
\* position in the tracer's list; any other reference is to a DataSource
\* object that was constructed and never passed to append_trace.
deref(trs, i) ==
    IF i \in 1..Len(trs) THEN trs[i] ELSE DataSource_load_collection("S2")

isDataTrace(trs, i) == deref(trs, i).kind = "DataTrace"

isDataSource(trs, i) == deref(trs, i).kind = "DataSource"

\* Mutant: an operation node returns its parent, whatever the parent is.
get_source_parent(trs, i) ==
    IF isDataSource(trs, i) THEN i ELSE trs[i].parent

RECURSIVE get_source(_, _)
get_source(trs, i) ==
    IF isDataSource(trs, i) THEN i
    ELSE IF isDataSource(trs, trs[i].parent) THEN trs[i].parent
    ELSE get_source(trs, trs[i].parent)

\* utils.to_hashable on a dict: the tuple of its (key, value) items, sorted
\* by key.
RECURSIVE to_hashable_items(_, _)
to_hashable_items(d, keys) ==
    IF keys = <<>> THEN <<>>
    ELSE (IF Head(keys) \in DOMAIN d THEN <<<<Head(keys), d[Head(keys)]>>>> ELSE <<>>)
         \o to_hashable_items(d, Tail(keys))

to_hashable_dict(d) == to_hashable_items(d, OptionKeys)

\* utils.to_hashable on (process, arguments): tuples stay tuples, the
\* options dict of load_disk_data becomes a tuple of items.
to_hashable(process, arguments) ==
    IF process = "load_disk_data"
    THEN <<process, <<arguments[1], arguments[2], to_hashable_dict(arguments[3])>>>>
    ELSE <<process, arguments>>

get_source_id(trs, i) ==
    to_hashable(deref(trs, i).process, deref(trs, i).arguments)

\* Mutant: the node's own arguments come before its parent's.
RECURSIVE get_arguments_child_first(_, _, _)
get_arguments_child_first(trs, i, operation) ==
    IF isDataTrace(trs, i)
    THEN (IF trs[i].operation = operation THEN <<trs[i].arguments>> ELSE <<>>)
         \o get_arguments_child_first(trs, trs[i].parent, operation)
    ELSE <<>>

RECURSIVE get_arguments_by_operation(_, _, _)
get_arguments_by_operation(trs, i, operation) ==
    IF isDataTrace(trs, i)
    THEN get_arguments_by_operation(trs, trs[i].parent, operation)
         \o (IF trs[i].operation = operation THEN <<trs[i].arguments>> ELSE <<>>)
    ELSE <<>>

(* ------------------------------ tracer -------------------------------- *)

append_trace(trs, trace) == Append(trs, trace)

\* Mutant: a node that is extended by the operation it records gets the
\* new arguments too.
RECURSIVE process_traces_rewriting(_, _, _, _)
process_traces_rewriting(trs, lineage, operation, arguments) ==
    IF lineage = <<>> THEN trs
    ELSE LET t == Head(lineage)
             same == isDataTrace(trs, t) /\ trs[t].operation = operation
         IN process_traces_rewriting(
                append_trace(IF same THEN [trs EXCEPT ![t].arguments = arguments]
                             ELSE trs,
                             DataTrace(t, operation, arguments)),
                Tail(lineage), operation, arguments)

\* Mutant: the new node is given itself as parent.
RECURSIVE process_traces_self_parent(_, _, _, _)
process_traces_self_parent(trs, lineage, operation, arguments) ==
    IF lineage = <<>> THEN trs
    ELSE process_traces_self_parent(
             append_trace(trs, DataTrace(Len(trs) + 1, operation, arguments)),
             Tail(lineage), operation, arguments)

\* Mutant: an entry that has been extended before is extended at its
\* newest child, as if the earlier operation had moved the cube.
RECURSIVE process_traces_extending(_, _, _, _)
process_traces_extending(trs, lineage, operation, arguments) ==
    IF lineage = <<>> THEN trs
    ELSE LET t == Head(lineage)
             kids == {i \in 1..Len(trs) : isDataTrace(trs, i) /\ trs[i].parent = t}
             parent == IF kids = {} THEN t
                       ELSE CHOOSE m \in kids : \A i \in kids : i <= m
         IN process_traces_extending(
                append_trace(trs, DataTrace(parent, operation, arguments)),
                Tail(lineage), operation, arguments)

\* The registry after process_traces: one DataTrace per entry of `lineage`,
\* appended in the order of `lineage`.
RECURSIVE process_traces(_, _, _, _)
process_traces(trs, lineage, operation, arguments) ==
    IF lineage = <<>> THEN trs
    ELSE process_traces(append_trace(trs, DataTrace(Head(lineage), operation, arguments)),
                        Tail(lineage), operation, arguments)

\* Mutant: the new nodes are returned last first.
process_traces_result_reversed(trs, lineage) ==
    [k \in 1..Len(lineage) |-> Len(trs) + Len(lineage) + 1 - k]

\* The list process_traces returns: the new nodes, in the order of `lineage`.
process_traces_result(trs, lineage) ==
    [k \in 1..Len(lineage) |-> Len(trs) + k]

\* Mutant: the walk stops below the source, which is never discarded.
RECURSIVE discarded_below_source(_, _)
discarded_below_source(trs, i) ==
    IF isDataTrace(trs, i) /\ isDataTrace(trs, trs[i].parent)
    THEN {trs[i].parent} \cup discarded_below_source(trs, trs[i].parent)
    ELSE {}

\* Nodes that the upward walk of get_trace_leaves from node i discards.
RECURSIVE discarded(_, _)
discarded(trs, i) ==
    IF isDataTrace(trs, i)
    THEN {trs[i].parent} \cup discarded(trs, trs[i].parent)
    ELSE {}

\* Mutant: nothing is discarded.
get_trace_leaves_all(trs) == 1..Len(trs)

\* Mutant: the walk is made from the newest trace only.
get_trace_leaves_newest(trs) ==
    (1..Len(trs)) \ UNION {discarded(trs, i) : i \in {Len(trs)} \ {0}}

get_trace_leaves(trs) ==
    (1..Len(trs)) \ UNION {discarded(trs, i) : i \in 1..Len(trs)}

(* ---------------- union helpers of openeo_driver.utils ---------------- *)

\* bands_union: order-preserving, duplicate-free union of band lists.
RECURSIVE append_new(_, _)
append_new(acc, s) ==
    IF s = <<>> THEN acc
    ELSE append_new(IF Head(s) \in Range(acc) THEN acc ELSE Append(acc, Head(s)),
                    Tail(s))

bands_union(a, b) == append_new(append_new(<<>>, a), b)

\* temporal_extent_union: the interval enclosing both.
temporal_extent_union(a, b) == <<Min(a[1], b[1]), Max(a[2], b[2])>>

\* spatial_extent_union: the box enclosing both; it fails when the boxes
\* are in different reference systems.
spatial_extent_union_fails(a, b) == a.crs # b.crs

spatial_extent_union(a, b) ==
    [west |-> Min(a.west, b.west), south |-> Min(a.south, b.south),
     east |-> Max(a.east, b.east), north |-> Max(a.north, b.north),
     crs |-> a.crs]

(* ----------------------- get_source_constraints ----------------------- *)

ConstraintOps == <<"temporal_extent", "spatial_extent", "bands">>

EmptyDict == [k \in {} |-> 0]

\* Mutant: the first item is taken whatever `merge` is.
leaf_constraints_first(trs, leaf, merge) ==
    LET args(op) == get_arguments_by_operation(trs, leaf, op)
        given == {op \in Range(ConstraintOps) : Len(args(op)) > 0}
    IN [op \in given |-> args(op)[1]]

\* Mutant: the last item is taken instead of the first.
leaf_constraints_last(trs, leaf, merge) ==
    LET args(op) == get_arguments_by_operation(trs, leaf, op)
        given == {op \in Range(ConstraintOps) : Len(args(op)) > 0}
    IN [op \in given |-> IF merge THEN args(op)[Len(args(op))] ELSE args(op)]

\* Mutant: every operation recorded in the tracer is collected, not only
\* the three constraint fields.
leaf_constraints_every_tag(trs, leaf, merge) ==
    LET args(op) == get_arguments_by_operation(trs, leaf, op)
        ops == Range(ConstraintOps)
                   \cup {trs[i].operation : i \in {j \in 1..Len(trs) : isDataTrace(trs, j)}}
        given == {op \in ops : Len(args(op)) > 0}
    IN [op \in given |-> IF merge THEN args(op)[1] ELSE args(op)]

\* Mutant: only the operation of the leaf itself is looked at, not those
\* of its ancestors.
leaf_constraints_own_tag(trs, leaf, merge) ==
    LET args(op) == get_arguments_by_operation(trs, leaf, op)
        own == IF isDataTrace(trs, leaf) THEN {trs[leaf].operation} ELSE {}
        given == {op \in Range(ConstraintOps) \cap own : Len(args(op)) > 0}
    IN [op \in given |-> IF merge THEN args(op)[1] ELSE args(op)]

\* The `constraints` dict built for one leaf (lines 136-146).
leaf_constraints(trs, leaf, merge) ==
    LET args(op) == get_arguments_by_operation(trs, leaf, op)
        given == {op \in Range(ConstraintOps) : Len(args(op)) > 0}
    IN [op \in given |-> IF merge THEN args(op)[1] ELSE args(op)]

\* Python truth value of a stored constraint (`if orig:`): a band list is
\* true when non-empty, a date pair and a bounding box always.
truthy(field, orig) == IF field = "bands" THEN Len(orig) > 0 ELSE TRUE

\* `orig = source_constraints[source_id].get(field)` followed by `if orig:`
has_orig(entry, field) == field \in DOMAIN entry /\ truthy(field, entry[field])

\* The value stored for a field that the entry already has (lines 154-161).
union_field(field, orig, value) ==
    CASE field = "bands" -> bands_union(orig, value)
      [] field = "temporal_extent" -> temporal_extent_union(orig, value)
      [] field = "spatial_extent" -> spatial_extent_union(orig, value)
      [] OTHER -> "ValueError"

\* Whether merging `constraints` into `entry` reaches the `else` of the
\* if/elif chain: raise ValueError(field) (line 161).
merge_raises_field(entry, constraints) ==
    \E field \in DOMAIN constraints :
        /\ has_orig(entry, field)
        /\ field \notin {"bands", "temporal_extent", "spatial_extent"}

\* Whether merging `constraints` into `entry` raises (line 161, or the
\* spatial union helper).
merge_raises(entry, constraints) ==
    \/ merge_raises_field(entry, constraints)
    \/ \E field \in DOMAIN constraints :
          /\ has_orig(entry, field)
          /\ field = "spatial_extent"
          /\ spatial_extent_union_fails(entry[field], constraints[field])

\* Mutant: a field the entry already has is overwritten, not united.
merge_entry_overwrite(entry, constraints) ==
    [field \in DOMAIN entry \cup DOMAIN constraints |->
        IF field \in DOMAIN constraints THEN constraints[field] ELSE entry[field]]

\* The entry of a source after the loop of lines 151-163.
merge_entry(entry, constraints) ==
    [field \in DOMAIN entry \cup DOMAIN constraints |->
        IF field \in DOMAIN constraints
        THEN IF has_orig(entry, field)
             THEN union_field(field, entry[field], constraints[field])
             ELSE constraints[field]
        ELSE entry[field]]

\* source_constraints[source_id] = value
dict_set(d, key, value) ==
    [k \in DOMAIN d \cup {key} |-> IF k = key THEN value ELSE d[k]]

\* Mutant: without merge, the list of a source is replaced, not extended.
constraints_step_replace(trs, leaf, merge, source_constraints) ==
    LET constraints == leaf_constraints(trs, leaf, merge)
        source_id == get_source_id(trs, get_source(trs, leaf))
    IN IF merge
       THEN IF source_id \in DOMAIN source_constraints
            THEN dict_set(source_constraints, source_id,
                          merge_entry(source_constraints[source_id], constraints))
            ELSE dict_set(source_constraints, source_id, constraints)
       ELSE dict_set(source_constraints, source_id, <<constraints>>)

\* One pass of the loop over the leaves (lines 135-167) for `leaf`.
constraints_step(trs, leaf, merge, source_constraints) ==
    LET constraints == leaf_constraints(trs, leaf, merge)
        source_id == get_source_id(trs, get_source(trs, leaf))
    IN IF merge
       THEN IF source_id \in DOMAIN source_constraints
            THEN dict_set(source_constraints, source_id,
                          merge_entry(source_constraints[source_id], constraints))
            ELSE dict_set(source_constraints, source_id, constraints)
       ELSE dict_set(source_constraints, source_id,
                     (IF source_id \in DOMAIN source_constraints
                      THEN source_constraints[source_id] ELSE <<>>)
                     \o <<constraints>>)

constraints_step_raises(trs, leaf, merge, source_constraints) ==
    LET source_id == get_source_id(trs, get_source(trs, leaf))
    IN /\ merge
       /\ source_id \in DOMAIN source_constraints
       /\ merge_raises(source_constraints[source_id],
                       leaf_constraints(trs, leaf, merge))

\* The exception a pass of the loop ends with.
constraints_step_error(trs, leaf, merge, source_constraints) ==
    LET source_id == get_source_id(trs, get_source(trs, leaf))
    IN IF merge_raises_field(source_constraints[source_id],
                             leaf_constraints(trs, leaf, merge))
       THEN "ValueError(field)"
       ELSE "spatial_extent_union"

\* The loop over the leaves, taken in the order `order`: the set of leaves
\* is a Python set of identity-hashed objects, so the order of iteration is
\* whatever the addresses of the nodes make it.
RECURSIVE constraints_loop(_, _, _, _)
constraints_loop(trs, order, merge, acc) ==
    IF order = <<>> \/ acc.raised THEN acc
    ELSE IF constraints_step_raises(trs, Head(order), merge, acc.value)
         THEN [raised |-> TRUE, value |-> acc.value,
               error |-> constraints_step_error(trs, Head(order), merge, acc.value)]
         ELSE constraints_loop(trs, Tail(order), merge,
                  [raised |-> FALSE, error |-> "None",
                   value |-> constraints_step(trs, Head(order), merge, acc.value)])

get_source_constraints(trs, merge, order) ==
    constraints_loop(trs, order, merge,
                     [raised |-> FALSE, error |-> "None", value |-> EmptyDict])

(* ------------------------------- cubes -------------------------------- *)

DryRunDataCube(trs, metadata) == [traces |-> trs, metadata |-> metadata]

\* DryRunDataCube._process: the registry after the call and the new cube.
cube_process(trs, cube, operation, arguments) ==
    [traces |-> process_traces(trs, cube.traces, operation, arguments),
     cube |-> DryRunDataCube(process_traces_result(trs, cube.traces), cube.metadata)]

filter_temporal(trs, cube, start, end) ==
    cube_process(trs, cube, "temporal_extent", <<start, end>>)

\* Mutant: the crs is not passed on.
filter_bbox_without_crs(trs, cube, west, south, east, north, crs) ==
    cube_process(trs, cube, "spatial_extent",
                 [west |-> west, south |-> south, east |-> east, north |-> north,
                  crs |-> "None"])

filter_bbox(trs, cube, west, south, east, north, crs) ==
    cube_process(trs, cube, "spatial_extent",
                 [west |-> west, south |-> south, east |-> east, north |-> north,
                  crs |-> crs])

filter_bands(trs, cube, bands) == cube_process(trs, cube, "bands", bands)

\* Mutant: the traces of the mask cube are left out.
mask_receiver_only(cube, other) == DryRunDataCube(cube.traces, "None")

\* mask and merge_cubes: the lineages concatenated, no metadata passed on.
mask(cube, other) == DryRunDataCube(cube.traces \o other.traces, "None")

merge_cubes(cube, other) == DryRunDataCube(cube.traces \o other.traces, "None")

\* Mutant: the bands filter is chained before the extents.
load_collection_bands_first(trs, collection_id, arguments, metadata) ==
    LET trace == DataSource_load_collection(collection_id)
        s0 == [traces |-> append_trace(trs, trace),
               cube |-> DryRunDataCube(<<Len(trs) + 1>>, metadata)]
        s1 == IF "bands" \in DOMAIN arguments
              THEN filter_bands(s0.traces, s0.cube, arguments["bands"])
              ELSE s0
        s2 == IF "temporal_extent" \in DOMAIN arguments
              THEN filter_temporal(s1.traces, s1.cube,
                                   arguments["temporal_extent"][1],
                                   arguments["temporal_extent"][2])
              ELSE s1
        s3 == IF "spatial_extent" \in DOMAIN arguments
              THEN LET b == arguments["spatial_extent"]
                   IN filter_bbox(s2.traces, s2.cube, b.west, b.south, b.east,
                                  b.north, b.crs)
              ELSE s2
    IN s3

\* DryRunDataTracer.load_collection: the registry after the call and the
\* cube returned.
load_collection(trs, collection_id, arguments, metadata) ==
    LET trace == DataSource_load_collection(collection_id)
        s0 == [traces |-> append_trace(trs, trace),
               cube |-> DryRunDataCube(<<Len(trs) + 1>>, metadata)]
        s1 == IF "temporal_extent" \in DOMAIN arguments
              THEN filter_temporal(s0.traces, s0.cube,
                                   arguments["temporal_extent"][1],
                                   arguments["temporal_extent"][2])
              ELSE s0
        s2 == IF "spatial_extent" \in DOMAIN arguments
              THEN LET b == arguments["spatial_extent"]
                   IN filter_bbox(s1.traces, s1.cube, b.west, b.south, b.east,
                                  b.north, b.crs)
              ELSE s1
        s3 == IF "bands" \in DOMAIN arguments
              THEN filter_bands(s2.traces, s2.cube, arguments["bands"])
              ELSE s2
    IN s3

load_disk_data(trs, glob_pattern, format, options) ==
    [traces |-> append_trace(trs, DataSource_load_disk_data(glob_pattern, format, options)),
     cube |-> DryRunDataCube(<<Len(trs) + 1>>, "None")]

\* Mutant: the call is recorded as an operation on each trace.
nop_recording(trs, cube) == cube_process(trs, cube, "resample_cube_spatial", "None")

\* resample_cube_spatial and _nop: `return self`.
nop(trs, cube) == [traces |-> trs, cube |-> cube]

SupportedGeometryTypes == {"dict", "str", "DelayedVector", "BaseGeometry"}

\* Mutant: filter_bbox is called before the type of the geometry is looked
\* at.
aggregate_spatial_filter_first(trs, cube, geometries) ==
    LET bbox == geometries.bounds
        r == filter_bbox(trs, cube, bbox[1], bbox[2], bbox[3], bbox[4],
                         "EPSG:4326")
    IN IF geometries.type \in SupportedGeometryTypes
       THEN [traces |-> r.traces, self |-> cube, raised |-> "None",
             value |-> [timeseries |-> EmptyDict, regions |-> geometries]]
       ELSE [traces |-> r.traces, self |-> cube, raised |-> "ValueError",
             value |-> "None"]

\* Mutant: the bounds are passed on as (south, west, north, east).
aggregate_spatial_swapped_axes(trs, cube, geometries) ==
    IF geometries.type \in SupportedGeometryTypes
    THEN LET bbox == geometries.bounds
             r == filter_bbox(trs, cube, bbox[2], bbox[1], bbox[4], bbox[3],
                              "EPSG:4326")
         IN [traces |-> r.traces, self |-> cube, raised |-> "None",
             value |-> [timeseries |-> EmptyDict, regions |-> geometries]]
    ELSE [traces |-> trs, self |-> cube, raised |-> "ValueError",
          value |-> "None"]

\* aggregate_spatial: the isinstance chain, then filter_bbox on the cube,
\* whose result is dropped: the registry gets the nodes and the cube keeps
\* its list of traces.
aggregate_spatial(trs, cube, geometries) ==
    IF geometries.type \in SupportedGeometryTypes
    THEN LET bbox == geometries.bounds
             r == filter_bbox(trs, cube, bbox[1], bbox[2], bbox[3], bbox[4],
                              "EPSG:4326")
         IN [traces |-> r.traces, self |-> cube, raised |-> "None",
             value |-> [timeseries |-> EmptyDict, regions |-> geometries]]
    ELSE [traces |-> trs, self |-> cube, raised |-> "ValueError",
          value |-> "None"]

(* ------------------------------ actions ------------------------------- *)

Init ==
    /\ graph \in Vocabularies
    /\ traces = <<>>
    /\ cubes = {}
    /\ ret = [op |-> "__init__"]

RECURSIVE Held(_)
Held(cbs) ==
    IF cbs = {} THEN 0
    ELSE LET c == CHOOSE x \in cbs : TRUE
         IN Len(c.traces) + Held(cbs \ {c})

Fits(trs, cbs) == Len(trs) + Held(cbs) <= MaxSize

\* The tracer is filled while the process graph is replayed and read once
\* the replay is over, when the cubes of the replay are gone: a call that
\* reads it then ends the session.  A caller of the vocabulary "interleaved"
\* reads the tracer during the replay too, and goes on with the replay.
ReadOps ==
    {"get_trace_leaves", "get_arguments_by_operation", "get_source",
     "get_source_constraints"}

Replaying == ret.op \notin ReadOps \cup {"evaluate"} \/ "replaying" \in DOMAIN ret

ReplayOver == ret.op = "evaluate"

\* The evaluation of the process graph returns: the caller lets go of the
\* cubes it made on the way.
EndReplay ==
    /\ Replaying
    /\ cubes' = {}
    /\ ret' = [op |-> "evaluate"]
    /\ UNCHANGED <<graph, traces>>

\* A call `call` (its name and the cubes it is given) that registers nodes
\* and returns a newly made cube; the caller keeps the cubes `used` in the
\* call or lets go of them.
Returns(call, used, r) ==
    \E kept \in {cubes, cubes \ used} :
        /\ Replaying
        /\ Fits(r.traces, kept \cup {r.cube})
        /\ traces' = r.traces
        /\ cubes' = kept \cup {r.cube}
        /\ ret' = ("cube" :> r.cube) @@ call
        /\ UNCHANGED graph

LoadCollection ==
    \E l \in graph.collections :
        Returns([op |-> "load_collection"], {},
                load_collection(traces, l.collection_id, l.arguments, l.metadata))

LoadDiskData ==
    \E d \in graph.disk :
        Returns([op |-> "load_disk_data"], {},
                load_disk_data(traces, d.glob_pattern, d.format, d.options))

FilterTemporal ==
    \E c \in cubes, e \in graph.temporal :
        Returns([op |-> "filter_temporal", self |-> c], {c},
                filter_temporal(traces, c, e[1], e[2]))

FilterBbox ==
    \E c \in cubes, b \in graph.bbox :
        Returns([op |-> "filter_bbox", self |-> c], {c},
                filter_bbox(traces, c, b.west, b.south, b.east, b.north, b.crs))

FilterBands ==
    \E c \in cubes, bands \in graph.bands :
        Returns([op |-> "filter_bands", self |-> c], {c},
                filter_bands(traces, c, bands))

Mask ==
    \E c \in cubes, m \in cubes :
        /\ "mask" \in graph.methods
        /\ Returns([op |-> "mask", self |-> c, other |-> m], {c, m},
                   [traces |-> traces, cube |-> mask(c, m)])

MergeCubes ==
    \E c \in cubes, other \in cubes :
        /\ "merge_cubes" \in graph.methods
        /\ Returns([op |-> "merge_cubes", self |-> c, other |-> other],
                   {c, other},
                   [traces |-> traces, cube |-> merge_cubes(c, other)])

\* aggregate_spatial returns no cube; `self` is the cube it was called on,
\* as it is after the call.
AggregateSpatial ==
    \E c \in cubes, geometries \in graph.geometries :
        LET r == aggregate_spatial(traces, c, geometries)
        IN /\ Replaying
           /\ Fits(r.traces, (cubes \ {c}) \cup {r.self})
           /\ traces' = r.traces
           /\ cubes' = (cubes \ {c}) \cup {r.self}
           /\ ret' = [op |-> "aggregate_spatial", geometries |-> geometries,
                      self |-> r.self, raised |-> r.raised, value |-> r.value]
           /\ UNCHANGED graph

\* resample_cube_spatial and the _nop methods return the cube itself.
Nop ==
    \E c \in cubes, method \in NopMethods \cap graph.methods :
        LET r == nop(traces, c)
        IN /\ Replaying
           /\ Fits(r.traces, cubes \cup {r.cube})
           /\ traces' = r.traces
           /\ cubes' = cubes \cup {r.cube}
           /\ ret' = [op |-> method, self |-> c, cube |-> r.cube]
           /\ UNCHANGED graph

\* append_trace called by the caller itself, as load_disk_data calls it:
\* the node returned goes into a new cube.  The node is a DataTrace whose
\* operation is none of the constraint fields and whose parent is a
\* registered node or a DataSource that was never registered; the caller
\* keeps the cubes it took the parent from or lets go of them.
AppendTrace ==
    \E parent \in 0..Len(traces), o \in graph.operations :
        LET trace == DataTrace(parent, o[1], o[2])
            cube == DryRunDataCube(<<Len(traces) + 1>>, "None")
            used == {c \in cubes : parent \in Range(c.traces)}
        IN \E kept \in {cubes, cubes \ used} :
           /\ Replaying
           /\ Fits(append_trace(traces, trace), kept \cup {cube})
           /\ traces' = append_trace(traces, trace)
           /\ cubes' = kept \cup {cube}
           /\ ret' = [op |-> "append_trace", trace |-> trace,
                      raised |-> "None", value |-> Len(traces) + 1,
                      cube |-> cube]
           /\ UNCHANGED graph

Nodes == 1..Len(traces)

\* A call that reads the tracer and returns r: after the replay, or in the
\* middle of it.  No read method assigns to the list of traces or to a node.
Reads(r) ==
    \/ /\ ReplayOver
       /\ ret' = r
       /\ UNCHANGED <<traces, cubes, graph>>
    \/ /\ Replaying
       /\ "read" \in graph.methods
       /\ ret' = ("replaying" :> TRUE) @@ r
       /\ UNCHANGED <<traces, cubes, graph>>

\* Mutant: the walk clears the nodes it discards in the list itself.
GetTraceLeaves_in_place ==
    /\ ReplayOver \/ (Replaying /\ "read" \in graph.methods)
    /\ ret' = [op |-> "get_trace_leaves", value |-> get_trace_leaves(traces)]
    /\ traces' = [k \in 1..Len(traces) |->
                     IF k \in get_trace_leaves(traces) THEN traces[k]
                     ELSE DataSource("discarded", <<>>)]
    /\ UNCHANGED <<cubes, graph>>

GetTraceLeaves ==
    Reads([op |-> "get_trace_leaves", value |-> get_trace_leaves(traces)])

GetArgumentsByOperation ==
    \E n \in Nodes, operation \in Range(ConstraintOps) :
        Reads([op |-> "get_arguments_by_operation", operation |-> operation,
               value |-> get_arguments_by_operation(traces, n, operation)])

GetSource ==
    \E n \in Nodes :
        Reads([op |-> "get_source", value |-> get_source(traces, n)])

GetSourceConstraints ==
    \E merge \in BOOLEAN, order \in Perms(get_trace_leaves(traces)) :
        LET r == get_source_constraints(traces, merge, order)
        IN Reads([op |-> "get_source_constraints", merge |-> merge,
                  raised |-> r.raised, error |-> r.error,
                  value |-> IF r.raised THEN EmptyDict ELSE r.value])

Next ==
    \/ LoadCollection
    \/ LoadDiskData
    \/ FilterTemporal
    \/ FilterBbox
    \/ FilterBands
    \/ Mask
    \/ MergeCubes
    \/ AggregateSpatial
    \/ Nop
    \/ AppendTrace
    \/ EndReplay
    \/ GetTraceLeaves
    \/ GetArgumentsByOperation
    \/ GetSource
    \/ GetSourceConstraints

Spec == Init /\ [][Next]_vars

(* ------------------- vocabulary of the properties --------------------- *)

Leaves == get_trace_leaves(traces)

IsOperation(n) == deref(traces, n).kind = "DataTrace"

IsSource(n) == deref(traces, n).kind = "DataSource"

Children(n) == {m \in Nodes : IsOperation(m) /\ traces[m].parent = n}

RECURSIVE AncestorsOf(_)
AncestorsOf(n) ==
    IF IsOperation(n) THEN {traces[n].parent} \cup AncestorsOf(traces[n].parent)
    ELSE {}

\* A set of nodes as a sequence, oldest node first.
RECURSIVE Sorted(_)
Sorted(S) ==
    IF S = {} THEN <<>>
    ELSE LET m == CHOOSE x \in S : \A y \in S : x <= y
         IN <<m>> \o Sorted(S \ {m})

\* The path from the Source to n, n included.
PathOf(n) == Sorted(AncestorsOf(n) \cup {n})

\* The payloads of the operations `tag` on the path of n, root first.
PayloadsOnPath(n, tag) ==
    LET on == SelectSeq(PathOf(n),
                        LAMBDA i : IsOperation(i) /\ traces[i].operation = tag)
    IN [k \in 1..Len(on) |-> traces[on[k]].arguments]

TagsOnPath(n) ==
    {traces[i].operation : i \in {j \in AncestorsOf(n) \cup {n} : IsOperation(j)}}
        \cap Range(ConstraintOps)

RootOf(n) == CHOOSE r \in AncestorsOf(n) \cup {n} : IsSource(r)

SameSource(a, b) ==
    /\ deref(traces, RootOf(a)).process = deref(traces, RootOf(b)).process
    /\ deref(traces, RootOf(a)).arguments = deref(traces, RootOf(b)).arguments

\* The key of a load_collection source.
CollectionKey(collection_id) == <<"load_collection", <<collection_id>>>>

Read(op) == ret.op = op

ReadConstraints(merge) ==
    Read("get_source_constraints") /\ ret.merge = merge /\ ~ret.raised

(* ------------------------------ claims -------------------------------- *)

\* load_collection(S), filter_temporal(T), filter_bbox(B, crs) and nothing
\* else in the tracer.
C1_Chain ==
    /\ Len(traces) = 3
    /\ IsSource(1) /\ traces[1].process = "load_collection"
    /\ IsOperation(2) /\ traces[2].parent = 1 /\ traces[2].operation = "temporal_extent"
    /\ IsOperation(3) /\ traces[3].parent = 2 /\ traces[3].operation = "spatial_extent"

\* C1: for the single chain load_collection(S), filter_temporal(T),
\* filter_bbox(B, crs), get_source_constraints(merge=True) has exactly one
\* entry, under the key ("load_collection", (S,)), whose temporal_extent is
\* T, whose spatial_extent is the record {west, south, east, north, crs} of
\* B, and which has no bands.
C1_SingleChainConstraints ==
    (Read("get_source_constraints") /\ ret.merge /\ C1_Chain) =>
        /\ ~ret.raised
        /\ \E l \in graph.collections, T \in graph.temporal, B \in graph.bbox :
              /\ DOMAIN ret.value = {CollectionKey(l.collection_id)}
              /\ LET entry == ret.value[CollectionKey(l.collection_id)]
                 IN /\ DOMAIN entry = {"temporal_extent", "spatial_extent"}
                    /\ entry["temporal_extent"] = T
                    /\ DOMAIN entry["spatial_extent"] =
                           {"west", "south", "east", "north", "crs"}
                    /\ entry["spatial_extent"] = B

C1_Witness ==
    /\ ReadConstraints(TRUE) /\ C1_Chain
    /\ ret.value[CollectionKey("S2")]["temporal_extent"] = <<1, 2>>
    /\ ret.value[CollectionKey("S2")]["spatial_extent"].crs = "EPSG:4326"

\* Two loads of one collection, the first filtered to bands X, the second
\* to bands Y.
C2_Branches(i, j, x, y) ==
    /\ Len(traces) = 4 /\ i < j
    /\ IsSource(i) /\ IsSource(j)
    /\ traces[i].process = "load_collection" /\ traces[j].process = "load_collection"
    /\ traces[i].arguments = traces[j].arguments
    /\ IsOperation(x) /\ traces[x].parent = i /\ traces[x].operation = "bands"
    /\ IsOperation(y) /\ traces[y].parent = j /\ traces[y].operation = "bands"

\* merge_cubes has just returned the cube that holds both branches.
C2_Merged(x, y) == ret.op = "merge_cubes" /\ ret.cube.traces = <<x, y>>

\* X followed by the elements of Y that are not in X.
OrderedUnion(X, Y) == X \o SelectSeq(Y, LAMBDA b : b \notin Range(X))

\* C2: two branches load the same collection, the first is filtered to
\* bands X, the second to bands Y, and the cubes are merged: a call of
\* get_source_constraints(merge=True) then returns a single entry, whose
\* bands are X followed by the elements of Y not in X.
C2_BandsInBranchOrder ==
    \A i, j, x, y \in Nodes :
        (C2_Branches(i, j, x, y) /\ C2_Merged(x, y)) =>
            \A order \in Perms(Leaves) :
                LET r == get_source_constraints(traces, TRUE, order)
                    key == <<"load_collection", traces[i].arguments>>
                IN /\ ~r.raised
                   /\ DOMAIN r.value = {key}
                   /\ r.value[key]["bands"] =
                          OrderedUnion(traces[x].arguments, traces[y].arguments)

\* C3: get_source_constraints(merge=False) maps each source key to a list
\* with one constraint set per leaf of that key, and a field of a
\* constraint set is the whole root-to-leaf sequence of payloads of that tag
\* on the leaf's path.
C3_PerLeafLists ==
    (Read("get_source_constraints") /\ ~ret.merge) =>
        /\ ~ret.raised
        /\ \A leaf \in Leaves : get_source_id(traces, RootOf(leaf)) \in DOMAIN ret.value
        /\ \A key \in DOMAIN ret.value :
              LET mine == {leaf \in Leaves : get_source_id(traces, RootOf(leaf)) = key}
              IN /\ mine # {}
                 /\ \E order \in Perms(mine) :
                       ret.value[key] =
                           [k \in 1..Len(order) |->
                               [tag \in TagsOnPath(order[k]) |->
                                   PayloadsOnPath(order[k], tag)]]

C3_Witness ==
    /\ Read("get_source_constraints") /\ ~ret.merge
    /\ \E i, j, x, y \in Nodes :
          /\ C2_Branches(i, j, x, y)
          /\ traces[x].arguments # traces[y].arguments
          /\ Len(ret.value[CollectionKey("S2")]) = 2
          /\ {ret.value[CollectionKey("S2")][k]["bands"] : k \in 1..2} =
                 {<<traces[x].arguments>>, <<traces[y].arguments>>}

\* C4: get_trace_leaves returns exactly the registered nodes that are not
\* the parent of a registered node.
C4_LeavesAreChildless ==
    /\ get_trace_leaves(traces) = {n \in Nodes : Children(n) = {}}
    /\ Read("get_trace_leaves") => ret.value = {n \in Nodes : Children(n) = {}}

\* Fan-out below a node that no cube the caller holds has in its list, and
\* a node (made by aggregate_spatial) that no cube ever had in its list.
C4_Witness ==
    /\ Read("get_trace_leaves")
    /\ \E n \in Nodes : Cardinality(Children(n)) >= 2 /\ n \notin ret.value
    /\ \E n \in ret.value, g \in graph.geometries :
          /\ IsOperation(n) /\ traces[n].operation = "spatial_extent"
          /\ traces[n].arguments =
                 [west |-> g.bounds[1], south |-> g.bounds[2], east |-> g.bounds[3],
                  north |-> g.bounds[4], crs |-> "EPSG:4326"]
          /\ \A c \in cubes : n \notin Range(c.traces)

\* The set L is an antichain of the parent relation and every node is in
\* L or an ancestor of a node of L.
AntichainAndCover(L) ==
    /\ \A a, b \in L : a \notin AncestorsOf(b)
    /\ \A n \in Nodes : n \in L \/ \E leaf \in L : n \in AncestorsOf(leaf)

\* C5: the leaves are an antichain of the parent relation and every node is
\* a leaf or an ancestor of a leaf: for the leaves of every registry a call
\* has built, and for what a get_trace_leaves call has returned (a read
\* leaves the registry as the call before it built it).
C5_LeavesAntichainAndCover ==
    /\ ret.op \notin ReadOps => AntichainAndCover(get_trace_leaves(traces))
    /\ Read("get_trace_leaves") => AntichainAndCover(ret.value)

C5_Witness ==
    /\ Read("get_trace_leaves")
    /\ Cardinality(ret.value) >= 2
    /\ \E n \in Nodes \ ret.value : \E leaf \in ret.value :
          n \in AncestorsOf(leaf) /\ traces[leaf].parent # n

\* C6: get_arguments_by_operation(node, tag) is the sequence of the
\* arguments of the operations `tag` on the path from the Source to the
\* node, root first and nothing else; a Source gives the empty sequence.
C6_ArgumentsRootFirst ==
    /\ ret.op \notin ReadOps =>
          \A n \in Nodes, tag \in Range(ConstraintOps) :
              /\ get_arguments_by_operation(traces, n, tag) = PayloadsOnPath(n, tag)
              /\ IsSource(n) => get_arguments_by_operation(traces, n, tag) = <<>>
    /\ Read("get_arguments_by_operation") =>
          \E n \in Nodes : ret.value = PayloadsOnPath(n, ret.operation)

\* Source -> temporal(T1) -> bands(Bd) -> temporal(T2), queried for
\* temporal_extent on the last node.
C6_Witness ==
    /\ Read("get_arguments_by_operation")
    /\ Len(traces) = 4 /\ IsSource(1)
    /\ \A n \in 2..4 : IsOperation(n) /\ traces[n].parent = n - 1
    /\ traces[2].operation = "temporal_extent" /\ traces[2].arguments = <<1, 2>>
    /\ traces[3].operation = "bands"
    /\ traces[4].operation = "temporal_extent" /\ traces[4].arguments = <<3, 5>>
    /\ ret.value = <<<<1, 2>>, <<3, 5>>>>

\* The leaves of the source key `key`.
LeavesOf(key) == {leaf \in Leaves : get_source_id(traces, RootOf(leaf)) = key}

\* C7: with merge=True the value of a leaf for a tag is the first,
\* root-most payload of that tag on its path; later payloads of the same
\* chain do not change it.
C7_KeepFirst ==
    /\ ret.op \notin ReadOps =>
          \A leaf \in Leaves : \A tag \in TagsOnPath(leaf) :
              leaf_constraints(traces, leaf, TRUE)[tag] = PayloadsOnPath(leaf, tag)[1]
    /\ ReadConstraints(TRUE) =>
          \A key \in DOMAIN ret.value :
              \A leaf \in LeavesOf(key) :
                  LeavesOf(key) = {leaf} =>
                      \A tag \in TagsOnPath(leaf) :
                          ret.value[key][tag] = PayloadsOnPath(leaf, tag)[1]

\* filter_temporal twice on one chain, with different extents.
C7_Witness ==
    /\ ReadConstraints(TRUE)
    /\ \E leaf \in Leaves :
          /\ LeavesOf(CollectionKey("S2")) = {leaf}
          /\ Len(PayloadsOnPath(leaf, "temporal_extent")) >= 2
          /\ PayloadsOnPath(leaf, "temporal_extent")[1] = <<1, 2>>
          /\ PayloadsOnPath(leaf, "temporal_extent")[2] = <<3, 5>>
          /\ ret.value[CollectionKey("S2")]["temporal_extent"] = <<1, 2>>

\* The first payloads of `tag` of the leaves of `key` that have one.
FirstPayloads(key, tag) ==
    {PayloadsOnPath(leaf, tag)[1] : leaf \in {l \in LeavesOf(key) : tag \in TagsOnPath(l)}}

LeastOf(S) == CHOOSE x \in S : \A y \in S : x <= y

GreatestOf(S) == CHOOSE x \in S : \A y \in S : x >= y

\* The band lists `lists` (a sequence of sequences) laid end to end, each
\* band kept where it first occurs.
RECURSIVE Flatten(_)
Flatten(lists) == IF lists = <<>> THEN <<>> ELSE Head(lists) \o Flatten(Tail(lists))

FirstSeen(bands) ==
    SelectSeq([k \in 1..Len(bands) |-> <<k, bands[k]>>],
              LAMBDA e : \A k \in 1..(e[1] - 1) : bands[k] # e[2])

FirstSeenUnion(lists) ==
    LET f == FirstSeen(Flatten(lists)) IN [k \in 1..Len(f) |-> f[k][2]]

\* C8: with merge=True the entry of a key has exactly the fields that one of
\* its leaves has; a field of one leaf only keeps its value, a field of
\* several leaves is their union: the enclosing interval, the enclosing box
\* (the call fails only when the boxes' reference systems differ), the
\* duplicate-free union of the band lists in the order the leaves are taken.
C8_FieldwiseUnion ==
    Read("get_source_constraints") /\ ret.merge =>
        IF ret.raised
        THEN \E key \in {get_source_id(traces, RootOf(l)) : l \in Leaves} :
                \E a, b \in FirstPayloads(key, "spatial_extent") : a.crs # b.crs
        ELSE /\ DOMAIN ret.value = {get_source_id(traces, RootOf(l)) : l \in Leaves}
             /\ \A key \in DOMAIN ret.value :
                   /\ DOMAIN ret.value[key] = UNION {TagsOnPath(l) : l \in LeavesOf(key)}
                   /\ \A tag \in DOMAIN ret.value[key] :
                         LET given == FirstPayloads(key, tag)
                             value == ret.value[key][tag]
                         IN CASE tag = "temporal_extent" ->
                                   value = <<LeastOf({e[1] : e \in given}),
                                             GreatestOf({e[2] : e \in given})>>
                              [] tag = "spatial_extent" ->
                                   /\ value.west = LeastOf({e.west : e \in given})
                                   /\ value.south = LeastOf({e.south : e \in given})
                                   /\ value.east = GreatestOf({e.east : e \in given})
                                   /\ value.north = GreatestOf({e.north : e \in given})
                                   /\ {value.crs} = {e.crs : e \in given}
                              [] tag = "bands" ->
                                   \E order \in Perms({l \in LeavesOf(key) :
                                                          "bands" \in TagsOnPath(l)}) :
                                       value = FirstSeenUnion(
                                           [k \in 1..Len(order) |->
                                               PayloadsOnPath(order[k], "bands")[1]])

\* Two leaves of one source with different boxes in one reference system,
\* united to the box enclosing both.
C8_Witness ==
    /\ ReadConstraints(TRUE)
    /\ \E key \in DOMAIN ret.value :
          /\ Cardinality(FirstPayloads(key, "spatial_extent")) = 2
          /\ ret.value[key]["spatial_extent"] \notin FirstPayloads(key, "spatial_extent")
          /\ ret.value[key]["spatial_extent"] =
                 [west |-> 0, south |-> 0, east |-> 2, north |-> 3, crs |-> "EPSG:4326"]

\* Source nodes made by separate loads of the same collection.
SameLoad(i, j) ==
    /\ i # j /\ IsSource(i) /\ IsSource(j)
    /\ traces[i].process = traces[j].process
    /\ traces[i].arguments = traces[j].arguments

\* C9: two loads of the same collection register two distinct Source
\* nodes, both leaves while they have no children, under one source key:
\* one entry with merge=True, a list of one constraint set per leaf with
\* merge=False.
C9_DistinctSourcesOneKey ==
    \A i, j \in Nodes :
        SameLoad(i, j) =>
            /\ get_source_id(traces, i) = get_source_id(traces, j)
            /\ \A n \in {i, j} : Children(n) = {} => n \in get_trace_leaves(traces)
            /\ Read("get_source_constraints") =>
                  /\ ~ret.raised => get_source_id(traces, i) \in DOMAIN ret.value
                  /\ ~ret.merge =>
                        Len(ret.value[get_source_id(traces, i)]) =
                            Cardinality({l \in Nodes : Children(l) = {}
                                                        /\ SameSource(l, i)})

C9_Witness ==
    /\ Read("get_source_constraints") /\ ~ret.merge
    /\ Len(traces) = 2 /\ SameLoad(1, 2)
    /\ DOMAIN ret.value = {CollectionKey("S2")}
    /\ ret.value[CollectionKey("S2")] = <<EmptyDict, EmptyDict>>

\* C10: get_source_constraints(merge=True) gives the same keys and the same
\* merged values whatever the identities of the nodes, that is whatever the
\* order in which the set of leaves is iterated.
C10_SameResultInAnyOrder ==
    ReadConstraints(TRUE) =>
        \A order \in Perms(get_trace_leaves(traces)) :
            LET r == get_source_constraints(traces, TRUE, order)
            IN ~r.raised /\ r.value = ret.value

\* The constraining methods of a cube, the field each one records and the
\* payloads the graph gives it.
FilterOps == {"filter_temporal", "filter_bbox", "filter_bands"}

TagOf(op) ==
    CASE op = "filter_temporal" -> "temporal_extent"
      [] op = "filter_bbox" -> "spatial_extent"
      [] op = "filter_bands" -> "bands"

PayloadsOf(op) ==
    CASE op = "filter_temporal" -> graph.temporal
      [] op = "filter_bbox" -> graph.bbox
      [] op = "filter_bands" -> graph.bands

MergeOps == {"mask", "merge_cubes"}

\* C11: a pass-through operation returns the cube it was called on,
\* registers no node and changes no list of traces of a cube, so that
\* get_source_constraints gives after the call what it gave before it, for
\* both values of merge and whatever the order of the leaves.
C11_PassThroughChangesNothing ==
    [][ret'.op \in NopMethods =>
          /\ traces' = traces
          /\ cubes' = cubes
          /\ ret'.cube = ret'.self /\ ret'.self \in cubes
          /\ get_trace_leaves(traces') = get_trace_leaves(traces)
          /\ \A merge \in BOOLEAN, order \in Perms(get_trace_leaves(traces)) :
                get_source_constraints(traces', merge, order)
                    = get_source_constraints(traces, merge, order)]_vars

\* A pass-through call on a cube that has been filtered.
C11_Witness ==
    /\ ret.op \in NopMethods
    /\ ret.cube \in cubes
    /\ \E k \in DOMAIN ret.cube.traces : IsOperation(ret.cube.traces[k])

\* C12: mask and merge_cubes register no node and return a cube whose list
\* of traces is the receiver's followed by the other cube's, duplicates
\* kept; a constraining operation on that cube then registers one
\* Operation node per entry, on the entries of both lists.
C12_FanInWithoutNodes ==
    [][/\ ret'.op \in MergeOps =>
             /\ traces' = traces
             /\ ret'.self \in cubes /\ ret'.other \in cubes
             /\ ret'.cube.traces = ret'.self.traces \o ret'.other.traces
             /\ Len(ret'.cube.traces)
                    = Len(ret'.self.traces) + Len(ret'.other.traces)
       /\ (ret.op \in MergeOps /\ ret'.op \in FilterOps /\ ret'.self = ret.cube) =>
             /\ Len(traces') = Len(traces) + Len(ret.self.traces) + Len(ret.other.traces)
             /\ \A k \in DOMAIN ret.cube.traces :
                   /\ traces'[Len(traces) + k].kind = "DataTrace"
                   /\ traces'[Len(traces) + k].parent =
                          (ret.self.traces \o ret.other.traces)[k]
                   /\ ret'.cube.traces[k] = Len(traces) + k]_vars

\* merge_cubes of two branches, then filter_bands on the cube it returned.
C12_Witness ==
    /\ ret.op = "filter_bands"
    /\ Len(ret.self.traces) = 2 /\ Len(ret.cube.traces) = 2
    /\ ret.self.traces[1] # ret.self.traces[2]
    /\ \A k \in 1..2 : traces[ret.cube.traces[k]].parent = ret.self.traces[k]

\* C13: a constraining operation on a cube with k entries registers
\* exactly k Operation nodes, the i-th with the i-th entry as parent and
\* with the field and the payload of the call, and returns a cube whose
\* list of traces is those k nodes in that order.
C13_OneNodePerEntry ==
    [][ret'.op \in FilterOps =>
          LET k == Len(ret'.self.traces)
          IN /\ ret'.self \in cubes
             /\ Len(traces') = Len(traces) + k
             /\ SubSeq(traces', 1, Len(traces)) = traces
             /\ Len(ret'.cube.traces) = k
             /\ \E payload \in PayloadsOf(ret'.op) :
                   \A i \in 1..k :
                      /\ traces'[Len(traces) + i] =
                             DataTrace(ret'.self.traces[i], TagOf(ret'.op), payload)
                      /\ ret'.cube.traces[i] = Len(traces) + i]_vars

\* filter_bbox on a cube that mask returned from two different branches.
C13_Witness ==
    /\ ret.op = "filter_bbox"
    /\ Len(ret.self.traces) = 2
    /\ ret.self.traces[1] # ret.self.traces[2]
    /\ ret.cube.traces = <<Len(traces) - 1, Len(traces)>>

\* C14: every step leaves the nodes of the tracer's list where and as they
\* are and only adds nodes at its end, so that the list of an earlier state
\* is a prefix of the list of every later state.
C14_AppendOnly ==
    [][/\ Len(traces') >= Len(traces)
       /\ \A n \in 1..Len(traces) : traces'[n] = traces[n]]_vars

\* A node that has been extended twice, by two calls.
C14_Witness ==
    /\ ret.op \in FilterOps
    /\ \E n \in Nodes :
          /\ IsOperation(n)
          /\ Cardinality(Children(n)) = 2

\* Whether following `parent` from n gets to a DataSource in at most
\* `steps` steps.
RECURSIVE ReachesSource(_, _)
ReachesSource(n, steps) ==
    \/ IsSource(n)
    \/ /\ steps > 0
       /\ ReachesSource(traces[n].parent, steps - 1)

\* The longest chain of DataTrace nodes cannot be longer than the list.
Depth == Len(traces)

\* C15: every DataTrace has one parent, made before it; a DataSource has
\* none; following `parent` from any node ends at a DataSource within the
\* depth of the graph, so no walk along `parent` goes on for ever.
C15_ParentChainsEndAtSource ==
    \A n \in Nodes :
        /\ IsOperation(n) => "parent" \in DOMAIN traces[n] /\ traces[n].parent < n
        /\ IsSource(n) => "parent" \notin DOMAIN traces[n]
        /\ ReachesSource(n, Depth)
        /\ IsSource(get_source(traces, n))

\* A chain of three operations below a source, and a node off that chain.
C15_Witness ==
    \E n, m \in Nodes :
        /\ Cardinality(AncestorsOf(n)) = 3
        /\ m \notin AncestorsOf(n) \cup {n}

\* C16: append_trace of a DataTrace whose parent is not in the tracer's
\* list fails and adds nothing; append_trace of any other node succeeds,
\* adds the node and returns it as it is.
C16_UnregisteredParentFails ==
    [][ret'.op = "append_trace" =>
          IF ret'.trace.kind = "DataTrace" /\ ret'.trace.parent \notin 1..Len(traces)
          THEN ret'.raised # "None" /\ traces' = traces
          ELSE /\ ret'.raised = "None"
               /\ traces' = Append(traces, ret'.trace)
               /\ traces'[ret'.value] = ret'.trace]_vars

\* C17: aggregate_spatial with a supported geometry registers one
\* spatial_extent node per entry of the cube, with the bounds of the
\* geometry and crs EPSG:4326, and the list of traces of the cube it was
\* called on is, after the call, the list of those new nodes.
C17_AggregateSpatialMovesCube ==
    [][(ret'.op = "aggregate_spatial" /\ ret'.raised = "None") =>
          \E c \in cubes :
             LET k == Len(c.traces)
                 b == ret'.geometries.bounds
             IN /\ Len(traces') = Len(traces) + k
                /\ \A i \in 1..k :
                      traces'[Len(traces) + i] =
                          DataTrace(c.traces[i], "spatial_extent",
                                    [west |-> b[1], south |-> b[2], east |-> b[3],
                                     north |-> b[4], crs |-> "EPSG:4326"])
                /\ ret'.self \in cubes'
                /\ ret'.self.traces = [i \in 1..k |-> Len(traces) + i]]_vars

\* C18: aggregate_spatial with a geometry that is no dict, str,
\* DelayedVector or shapely geometry raises ValueError, and neither the
\* tracer's list nor the cube is changed: no spatial_extent node is added.
C18_UnsupportedGeometryFails ==
    [][(/\ ret'.op = "aggregate_spatial"
        /\ ret'.geometries.type \notin {"dict", "str", "DelayedVector", "BaseGeometry"}) =>
          /\ ret'.raised = "ValueError"
          /\ traces' = traces
          /\ cubes' = cubes
          /\ ret'.self \in cubes]_vars

\* The call fails on a cube that has been filtered.
C18_Witness ==
    /\ ret.op = "aggregate_spatial"
    /\ ret.raised = "ValueError"
    /\ ret.geometries.type = "int"
    /\ \E k \in DOMAIN ret.self.traces :
          /\ IsOperation(ret.self.traces[k])
          /\ Children(ret.self.traces[k]) = {}

\* C19: the cube returned by filter_temporal, filter_bbox, filter_bands,
\* mask, merge_cubes and the pass-through operations has the metadata of
\* the cube the operation was called on.
C19_MetadataInherited ==
    [][ret'.op \in FilterOps \cup MergeOps \cup NopMethods =>
          ret'.cube.metadata = ret'.self.metadata]_vars

\* C20: get_source_constraints(merge=True) never ends in the ValueError of
\* the merge step for a field that is none of the three constraint fields,
\* whatever the tracer holds, nodes with other operations included.
C20_FieldErrorUnreachable ==
    (Read("get_source_constraints") /\ ret.merge) => ret.error # "ValueError(field)"

\* Two leaves of one source that both record an operation that is no
\* constraint field, one of them below a filter_bands.
C20_Witness ==
    /\ ReadConstraints(TRUE)
    /\ \E n, m \in Leaves :
          /\ n # m
          /\ get_source_id(traces, RootOf(n)) = get_source_id(traces, RootOf(m))
          /\ IsOperation(n) /\ traces[n].operation = "resample"
          /\ IsOperation(m) /\ traces[m].operation = "resample"
          /\ "bands" \in TagsOnPath(n)
          /\ "bands" \in DOMAIN ret.value[get_source_id(traces, RootOf(n))]

\* The argument filters of a load_collection call, in the order in which
\* the call chains them.
RECURSIVE GivenFilters(_, _)
GivenFilters(arguments, ops) ==
    IF ops = <<>> THEN <<>>
    ELSE IF Head(ops) \in DOMAIN arguments
         THEN <<Head(ops)>> \o GivenFilters(arguments, Tail(ops))
         ELSE GivenFilters(arguments, Tail(ops))

\* The payload the node of one argument filter records.
FilterPayload(arguments, op) ==
    IF op = "temporal_extent"
    THEN <<arguments[op][1], arguments[op][2]>>
    ELSE arguments[op]

\* C21: load_disk_data, and load_collection without filter arguments,
\* register exactly one new source node with the process tag and the
\* arguments of the call and return a cube whose lineage is that node
\* alone; load_collection with temporal_extent, spatial_extent or bands
\* arguments registers below the source one operation node per argument
\* given, chained in the order temporal_extent, spatial_extent, bands, and
\* returns a cube whose single entry is the last node of the chain.
C21_LoadRegistersSourceAndChain ==
    [][LET new == Len(traces) + 1 IN
       /\ ret'.op = "load_disk_data" =>
             /\ Len(traces') = new
             /\ SubSeq(traces', 1, Len(traces)) = traces
             /\ \E d \in graph.disk :
                   traces'[new] = DataSource("load_disk_data",
                                      <<d.glob_pattern, d.format, d.options>>)
             /\ ret'.cube.traces = <<new>>
       /\ ret'.op = "load_collection" =>
             /\ SubSeq(traces', 1, Len(traces)) = traces
             /\ \E l \in graph.collections :
                   LET given == GivenFilters(l.arguments, ConstraintOps) IN
                   /\ Len(traces') = new + Len(given)
                   /\ traces'[new] = DataSource("load_collection",
                                                <<l.collection_id>>)
                   /\ \A k \in 1..Len(given) :
                         /\ isDataTrace(traces', new + k)
                         /\ traces'[new + k].parent = new + k - 1
                         /\ traces'[new + k].operation = given[k]
                         /\ traces'[new + k].arguments =
                                FilterPayload(l.arguments, given[k])
                   /\ ret'.cube.traces = <<new + Len(given)>>
                   /\ ret'.cube.metadata = l.metadata]_vars

\* A load_collection with all three filter arguments has returned the cube
\* at the end of its chain.
C21_Witness ==
    /\ ret.op = "load_collection"
    /\ Len(traces) >= 4
    /\ ret.cube.traces = <<Len(traces)>>
    /\ PathOf(Len(traces)) = <<Len(traces) - 3, Len(traces) - 2,
                               Len(traces) - 1, Len(traces)>>
    /\ IsSource(Len(traces) - 3)
    /\ [k \in 1..3 |-> traces[Len(traces) - 3 + k].operation] = ConstraintOps

\* C22: in every registry reachable through the operations of one tracer
\* and its cubes, the parent of every registered operation node is itself
\* registered, and was registered before the node: the parent relation is
\* a forest rooted at the registered source nodes.
C22_ParentsRegisteredBefore ==
    \A n \in Nodes : IsOperation(n) => traces[n].parent \in 1..(n - 1)

\* C23: filter_temporal, filter_bbox and filter_bands leave the lineage of
\* the cube they are called on and every existing node as they were, so
\* that two such operations applied to the same cube make every entry of
\* it the parent of two sibling operation nodes, both leaves, the path of
\* each holding the payload of its own branch and not that of the other.
C23_FiltersBranch ==
    [][ret'.op \in FilterOps =>
          /\ SubSeq(traces', 1, Len(traces)) = traces
          /\ ret'.self \in cubes
          /\ cubes' \ {ret'.cube} \subseteq cubes
          /\ (ret.op \in FilterOps /\ ret.self = ret'.self) =>
                \A k \in 1..Len(ret'.self.traces) :
                    LET p == ret'.self.traces[k]
                        a == ret.cube.traces[k]
                        b == ret'.cube.traces[k]
                        own(x, tag) == IF traces'[x].operation = tag
                                       THEN <<traces'[x].arguments>>
                                       ELSE <<>>
                    IN /\ a # b
                       /\ isDataTrace(traces', a) /\ traces'[a].parent = p
                       /\ isDataTrace(traces', b) /\ traces'[b].parent = p
                       /\ {a, b} \subseteq get_trace_leaves(traces')
                       /\ \A tag \in {TagOf(ret.op), TagOf(ret'.op)} :
                             /\ get_arguments_by_operation(traces', a, tag) =
                                   get_arguments_by_operation(traces', p, tag)
                                       \o own(a, tag)
                             /\ get_arguments_by_operation(traces', b, tag) =
                                   get_arguments_by_operation(traces', p, tag)
                                       \o own(b, tag)]_vars

\* A cube has been filtered twice, by time and by bands: its entry has two
\* children, both leaves, with different operations.
C23_Witness ==
    /\ ret.op = "filter_bands"
    /\ \E p \in Range(ret.self.traces) :
          /\ Cardinality(Children(p)) = 2
          /\ Children(p) \subseteq Leaves
          /\ \E a, b \in Children(p) :
                /\ traces[a].operation = "temporal_extent"
                /\ traces[b].operation = "bands"
                /\ ret.cube.traces = <<b>>

\* The bounding box aggregate_spatial derives from a geometry.
BoundsBox(geometries) ==
    LET b == geometries.bounds
    IN [west |-> b[1], south |-> b[2], east |-> b[3], north |-> b[4],
        crs |-> "EPSG:4326"]

\* Node n is the end of a chain that holds every node of its source and
\* has no spatial filter above n.
EndsPlainChain(n) ==
    /\ {m \in Nodes : SameSource(m, n)} = AncestorsOf(n) \cup {n}
    /\ PayloadsOnPath(traces[n].parent, "spatial_extent") = <<>>

\* C24: aggregate_spatial on a cube of k entries with a supported geometry
\* registers exactly k new spatial_extent nodes, one per entry with that
\* entry as parent, whose payload is the bounds of the geometry with crs
\* EPSG:4326; when the new node ends a chain that has no earlier spatial
\* filter, get_source_constraints(merge=True) reports that box as the
\* spatial_extent of the source, whatever the order of the leaves.
C24_AggregateSpatialRegistersBounds ==
    [][(ret'.op = "aggregate_spatial" /\ ret'.raised = "None") =>
          \E c \in cubes :
             LET k == Len(c.traces)
                 box == BoundsBox(ret'.geometries)
             IN /\ Len(traces') = Len(traces) + k
                /\ SubSeq(traces', 1, Len(traces)) = traces
                /\ \A i \in 1..k :
                      LET n == Len(traces) + i IN
                      /\ traces'[n] = DataTrace(c.traces[i], "spatial_extent", box)
                      /\ EndsPlainChain(n)' =>
                            \A order \in Perms(get_trace_leaves(traces')) :
                                LET r == get_source_constraints(traces', TRUE, order)
                                    key == get_source_id(traces', get_source(traces', n))
                                IN ~r.raised =>
                                      /\ key \in DOMAIN r.value
                                      /\ "spatial_extent" \in DOMAIN r.value[key]
                                      /\ r.value[key]["spatial_extent"] = box]_vars

\* aggregate_spatial has ended the chain of a loaded collection, with a
\* geometry whose bounds are no box of a filter_bbox call.
C24_Witness ==
    /\ ret.op = "aggregate_spatial" /\ ret.raised = "None"
    /\ Len(traces) >= 2
    /\ LET n == Len(traces) IN
       /\ IsOperation(n)
       /\ traces[n].operation = "spatial_extent"
       /\ traces[n].arguments = BoundsBox(ret.geometries)
       /\ traces[n].arguments \notin graph.bbox
       /\ EndsPlainChain(n)
       /\ deref(traces, RootOf(n)).process = "load_collection"

\* C25: for both merge modes the keys of the result of
\* get_source_constraints are the logical source keys of the registered
\* source nodes: every loaded source has an entry, constrained or not, and
\* no key belongs to no registered source.
C25_KeysAreRegisteredSources ==
    (Read("get_source_constraints") /\ ~ret.raised) =>
        DOMAIN ret.value = {get_source_id(traces, n) : n \in {m \in Nodes : IsSource(m)}}

\* The logical source key of a node: the key of the source it leads to.
SourceKey(n) == get_source_id(traces, get_source(traces, n))

\* C26: the logical source key of an operation node is that of its parent,
\* and so that of the source its parent path ends at; get_source of a node
\* returns the one source node on the node's parent path, the node itself
\* when it is a source.
C26_SourceKeyFromRoot ==
    \A n \in Nodes :
        LET s == get_source(traces, n) IN
        /\ isDataSource(traces, s)
        /\ {r \in AncestorsOf(n) \cup {n} : IsSource(r)} = {s}
        /\ IsSource(n) => s = n
        /\ IsOperation(n) =>
              /\ SourceKey(n) = SourceKey(traces[n].parent)
              /\ SourceKey(n) = get_source_id(traces, RootOf(n))

\* Two sources with different keys are registered, and an operation node
\* two steps below the second of them.
C26_Witness ==
    \E n \in Nodes :
        /\ IsOperation(n) /\ IsOperation(traces[n].parent)
        /\ \E s \in Nodes :
              /\ IsSource(s)
              /\ s < RootOf(n)
              /\ deref(traces, s).arguments # deref(traces, RootOf(n)).arguments

\* A step that takes node n out of the leaf set registers a child of n.
RegistersChildOf(n) ==
    \E m \in (Len(traces) + 1)..Len(traces') :
        isDataTrace(traces', m) /\ traces'[m].parent = n

C28_ReadsChangeNothing ==
    [][ret'.op \in ReadOps =>
          /\ traces' = traces
          /\ cubes' = cubes
          /\ "replaying" \in DOMAIN ret' =>
                \A merge \in BOOLEAN, order \in Perms(get_trace_leaves(traces')) :
                    get_source_constraints(traces', merge, order) =
                        get_source_constraints(traces, merge, order)
          /\ ret'.op = "get_arguments_by_operation" =>
                \E n \in Nodes :
                    ret'.value =
                        get_arguments_by_operation(traces, n, ret'.operation)]_vars

\* The tracer was read in the middle of a replay, with a filtered cube in
\* the caller's hands and room for more operations on it.
C28_Witness ==
    /\ "replaying" \in DOMAIN ret
    /\ ret.op = "get_source_constraints" /\ ret.merge /\ ~ret.raised
    /\ \E c \in cubes : \E n \in Range(c.traces) : IsOperation(n)
    /\ Len(traces) + Held(cubes) < MaxSize
    /\ \E key \in DOMAIN ret.value : "bands" \in DOMAIN ret.value[key]

\* The number of per-leaf constraint sets in a result of
\* get_source_constraints(merge=False), over the keys `keys`.
RECURSIVE ListLengths(_, _)
ListLengths(value, keys) ==
    IF keys = {} THEN 0
    ELSE LET key == CHOOSE k \in keys : TRUE
         IN Len(value[key]) + ListLengths(value, keys \ {key})

\* C29: the constraint set built for a leaf, in both merge modes, has the
\* field temporal_extent, spatial_extent or bands exactly when an operation
\* node with that tag lies on the path from the leaf to its source;
\* operations with any other tag give no field; and with merge=False the
\* lengths of the lists of all keys add up to the number of leaves.
C29_FieldsFromPathTags ==
    Read("get_source_constraints") =>
        /\ \A leaf \in Leaves, merge \in BOOLEAN :
              LET fields == DOMAIN leaf_constraints(traces, leaf, merge)
                  tagged(field) ==
                      \E n \in AncestorsOf(leaf) \cup {leaf} :
                          IsOperation(n) /\ traces[n].operation = field
              IN /\ fields \subseteq Range(ConstraintOps)
                 /\ \A field \in Range(ConstraintOps) :
                       field \in fields <=> tagged(field)
        /\ ReadConstraints(FALSE) =>
              /\ ListLengths(ret.value, DOMAIN ret.value) = Cardinality(Leaves)
              /\ \A key \in DOMAIN ret.value :
                    \A k \in 1..Len(ret.value[key]) :
                        \E leaf \in LeavesOf(key) :
                            DOMAIN ret.value[key][k] =
                                DOMAIN leaf_constraints(traces, leaf, FALSE)

\* Read with merge=False: two leaves of one source, one a "resample" node
\* below a filter_bands node, the other the filter_bands leaf of another
\* branch.
C29_Witness ==
    /\ ReadConstraints(FALSE)
    /\ Cardinality(Leaves) = 2
    /\ \E n, m \in Leaves :
          /\ IsOperation(n) /\ traces[n].operation = "resample"
          /\ "bands" \in TagsOnPath(n)
          /\ IsOperation(m) /\ traces[m].operation = "bands"
          /\ \E key \in DOMAIN ret.value : Len(ret.value[key]) = 2

====
